---- MODULE Spec2Model ----
(***************************************************************************)
(* combomatic (src/main.rs): enumeration and ranking of the combinations   *)
(* within +/- range of a base combination on the ring [min, max].          *)
(*                                                                         *)
(* All arithmetic of the program is on u64.  The model keeps the width as  *)
(* WordBits bits: a result outside 0 .. Word-1 is an overflow, which       *)
(* panics when the build has overflow checks (debug profile) and wraps     *)
(* modulo Word when it has not (release profile).  Division by zero        *)
(* panics in both.  The variable `checked` is the profile of the build.    *)
(***************************************************************************)
EXTENDS Integers, Naturals, Sequences, FiniteSets, TLC

\* ---- bounds of the model ----
WordBits == 4      \* width of the unsigned machine word (u64 in the source)
MaxLen == 2        \* longest base combination
MaxMin == 1        \* largest lower ring bound tried
MaxMax == 5        \* largest small upper ring bound tried
MaxRange == 3      \* largest small radius tried

Word == 2^WordBits

VARIABLES
  min, max, range, combination,  \* the fields of Config
  checked,                       \* TRUE: overflow checks on (debug build)
  pc,                            \* "start" | "done"
  result,                        \* "none" | "ok" | "panic"
  guesses,                       \* the list returned by Config::guesses
  gen,                           \* gen[j]: the delta at which guesses[j] was generated
  generated,                     \* number of candidates pushed by the loop
  a, b, m,                       \* the arguments of a call of modular_distance
  dstat, dist                    \* its outcome: "idle" | "ok" | "panic", and the value

vars == <<min, max, range, combination, checked, pc, result, guesses, gen,
          generated, a, b, m, dstat, dist>>

\* ---- u64 arithmetic ----
wrap(x) == x % Word
ovf(x) == x < 0 \/ x >= Word

Min2(x, y) == IF x <= y THEN x ELSE y

\* ---- fn modular_distance(a, b, modulus) ----
modular_distance_traps(x, y, md) ==
  \/ ovf(x + md) \/ ovf(wrap(x + md) - y)
  \/ ovf(y + md) \/ ovf(wrap(y + md) - x)

modular_distance(x, y, md) ==
  Min2(wrap(wrap(x + md) - y) % md, wrap(wrap(y + md) - x) % md)

\* ---- Config::modulus ----
modulus_traps == ovf(max - min) \/ ovf(wrap(max - min) + 1)

modulus == wrap(wrap(max - min) + 1)

\* ---- the body of the inner loop of Config::guesses, for one digit ----
NewDigitTraps(n, dn) ==
  LET offset == wrap(n - min)
      s1 == wrap(offset + modulus)
      s2 == wrap(s1 + dn)
      s3 == wrap(s2 - range)
  IN  \/ ovf(n - min)
      \/ modulus_traps
      \/ ovf(offset + modulus)
      \/ ovf(s1 + dn)
      \/ ovf(s2 - range)
      \/ (modulus # 0 /\ ovf((s3 % modulus) + min))

NewDigitNoModulo(n, dn) ==
  LET offset == wrap(n - min)
  IN  wrap(wrap(wrap(wrap(offset + modulus) + dn) - range) + min)

NewDigit(n, dn) ==
  LET offset == wrap(n - min)
  IN  wrap((wrap(wrap(wrap(offset + modulus) + dn) - range) % modulus) + min)

\* ---- let base = self.range * 2 + 1; let last = base.pow(numbers) ----
base_traps == ovf(range * 2) \/ ovf(wrap(range * 2) + 1)

base == wrap(wrap(range * 2) + 1)

numbers == Len(combination)

last_traps == ovf(base ^ numbers)

last == wrap(base ^ numbers)

\* ---- one pass of `for n in &mut guess`, delta divided as it goes ----
RECURSIVE GuessFrom(_, _)
GuessFrom(rest, delta) ==
  IF rest = <<>> THEN <<>>
  ELSE <<NewDigit(Head(rest), delta % base)>> \o GuessFrom(Tail(rest), delta \div base)

RECURSIVE GuessTraps(_, _)
GuessTraps(rest, delta) ==
  /\ rest # <<>>
  /\ \/ NewDigitTraps(Head(rest), delta % base)
     \/ GuessTraps(Tail(rest), delta \div base)

\* a panic of the iteration for delta: `% 0`, or an overflow in a checked build
GuessPanics(delta) ==
  /\ numbers > 0
  /\ \/ modulus = 0
     \/ checked /\ GuessTraps(combination, delta)

\* ---- Config::errors ----
RECURSIVE SumWrapped(_)
SumWrapped(s) == IF s = <<>> THEN 0 ELSE wrap(Head(s) + SumWrapped(Tail(s)))

RECURSIVE SumMath(_)
SumMath(s) == IF s = <<>> THEN 0 ELSE Head(s) + SumMath(Tail(s))

Distances(guess) ==
  [i \in 1..Min2(Len(guess), numbers) |->
     modular_distance(wrap(guess[i] - min), wrap(combination[i] - min), modulus)]

errors(guess) == SumWrapped(Distances(guess))

errors_traps(guess) ==
  \/ \E i \in 1..Min2(Len(guess), numbers) :
       \/ ovf(guess[i] - min)
       \/ ovf(combination[i] - min)
       \/ modulus_traps
       \/ modular_distance_traps(wrap(guess[i] - min), wrap(combination[i] - min), modulus)
  \/ ovf(SumMath(Distances(guess)))

\* ---- guesses.sort_by_key(|guess| self.errors(guess)): a stable sort;
\* x.key is self.errors(x.digits) ----
\* insertion into a sorted run: before the first entry with a key >= x.key
InsertUnstable(sorted, x) ==
  LET p == Cardinality({i \in 1..Len(sorted) : sorted[i].key < x.key})
  IN  SubSeq(sorted, 1, p) \o <<x>> \o SubSeq(sorted, p + 1, Len(sorted))

\* insertion into a sorted run: after every entry with a key <= x.key
InsertStable(sorted, x) ==
  LET p == Cardinality({i \in 1..Len(sorted) : sorted[i].key <= x.key})
  IN  SubSeq(sorted, 1, p) \o <<x>> \o SubSeq(sorted, p + 1, Len(sorted))

RECURSIVE SortPrefix(_, _)
SortPrefix(list, n) ==
  IF n = 0 THEN <<>> ELSE InsertStable(SortPrefix(list, n - 1), list[n])

sort_by_key(list) == SortPrefix(list, Len(list))

\* ---- `for mut delta in 0..last { ...; guesses.push(guess) }`, up to stop;
\* an entry keeps its delta and its sort key self.errors(guess) ----
RECURSIVE PushFrom(_, _, _)
PushFrom(delta, stop, acc) ==
  IF delta >= stop THEN acc
  ELSE LET guess == GuessFrom(combination, delta)
       IN  PushFrom(delta + 1, stop,
                    Append(acc, [digits |-> guess, delta |-> delta, key |-> errors(guess)]))

\* the first delta whose iteration panics; last when none does
FirstPanic ==
  LET bad == {d \in 0..(last - 1) : GuessPanics(d)}
  IN  IF bad = {} THEN last ELSE CHOOSE d \in bad : \A e \in bad : d <= e

\* ---- the inputs ----
\* digits of the base combination: the ends of the ring and the one after min
DigitChoices(lo, hi) == {lo, hi} \cup (IF lo + 1 <= hi THEN {lo + 1} ELSE {})

SeqsUpTo(S, n) == UNION {[1..k -> S] : k \in 0..n}

\* ring bounds and radii: the small ones and the ones at the top of the word
MaxChoices == (0..MaxMax) \cup {Word - 2, Word - 1}

RangeChoices == (0..MaxRange) \cup {Word \div 2 - 1, Word \div 2, Word - 1}

Init ==
  /\ min \in 0..MaxMin
  /\ max \in MaxChoices
  /\ range \in RangeChoices
  /\ combination \in SeqsUpTo(DigitChoices(min, max), MaxLen)
  /\ checked \in BOOLEAN
  /\ pc = "start"
  /\ result = "none"
  /\ guesses = <<>>
  /\ gen = <<>>
  /\ generated = 0
  /\ a = 0 /\ b = 0 /\ m = 1 /\ dstat = "idle" /\ dist = 0

\* ---- Config::guesses, start to return ----
Config_guesses ==
  /\ pc = "start"
  /\ pc' = "done"
  /\ IF checked /\ (base_traps \/ last_traps)
     THEN /\ result' = "panic"
          /\ guesses' = <<>> /\ gen' = <<>> /\ generated' = 0
     ELSE \E stop \in {FirstPanic} :
          \E pushed \in {PushFrom(0, stop, <<>>)} :
            /\ generated' = stop
            /\ IF \/ stop < last
                  \/ checked /\ \E j \in 1..stop : errors_traps(pushed[j].digits)
               THEN /\ result' = "panic"
                    /\ guesses' = <<>> /\ gen' = <<>>
               ELSE \E sorted \in {sort_by_key(pushed)} :
                      /\ result' = "ok"
                      /\ guesses' = [j \in 1..stop |-> sorted[j].digits]
                      /\ gen' = [j \in 1..stop |-> sorted[j].delta]
  /\ UNCHANGED <<min, max, range, combination, checked, a, b, m, dstat, dist>>

Next == Config_guesses

Spec == Init /\ [][Next]_vars

\* ---- modular_distance on its own: every ring size and every pair of points ----
InitDistance ==
  /\ m \in 1..(Word - 1)
  /\ a \in 0..(m - 1)
  /\ b \in 0..(m - 1)
  /\ checked \in BOOLEAN
  /\ dstat = "idle" /\ dist = 0
  /\ min = 0 /\ max = 0 /\ range = 0 /\ combination = <<>>
  /\ pc = "done" /\ result = "none" /\ guesses = <<>> /\ gen = <<>> /\ generated = 0

Call_modular_distance ==
  /\ dstat = "idle"
  /\ IF checked /\ modular_distance_traps(a, b, m)
     THEN dstat' = "panic" /\ dist' = 0
     ELSE dstat' = "ok" /\ dist' = modular_distance(a, b, m)
  /\ UNCHANGED <<min, max, range, combination, checked, pc, result, guesses, gen,
                 generated, a, b, m>>

NextDistance == Call_modular_distance

SpecDistance == InitDistance /\ [][NextDistance]_vars

\* ---- the mathematics the claims speak of (unbounded integers) ----
Valid == min <= max /\ \A i \in 1..numbers : combination[i] \in min..max

RingSize == max - min + 1

SearchSpace == (2 * range + 1) ^ numbers

Fits == SearchSpace < Word

CyclicDistance(x, y, n) == Min2((x - y) % n, (y - x) % n)

\* the offset digit d_i of delta, position i counted from 1
OffsetDigit(delta, i) == (delta \div ((2 * range + 1) ^ (i - 1))) % (2 * range + 1)

Returned == pc = "done" /\ result = "ok"

\* ---- the claims ----

\* C1: for a valid ring, a non-empty base combination with digits in the
\* ring and any radius, guesses returns a list of exactly (2r+1)^k candidates.
C1_CountIsPower ==
  (pc = "done" /\ Valid /\ numbers >= 1)
    => (result = "ok" /\ Len(guesses) = SearchSpace)

\* C2: the returned list is the stable sort of the generation sequence by
\* error score: it holds every generated delta once, each entry is the
\* candidate of its delta, and for positions i < j either the score at i is
\* smaller, or the scores are equal and i was generated at the smaller delta.
C2_StableSorted ==
  Returned =>
    /\ Len(guesses) = generated /\ Len(gen) = generated
    /\ \A d \in 0..(generated - 1) : \E j \in 1..generated : gen[j] = d
    /\ \A j \in 1..generated : guesses[j] = GuessFrom(combination, gen[j])
    /\ LET score == [j \in 1..generated |-> errors(guesses[j])]
       IN  \A i \in 1..generated : \A j \in (i + 1)..generated :
             \/ score[i] < score[j]
             \/ score[i] = score[j] /\ gen[i] < gen[j]

\* C2 witness: a returned list which the sort has reordered and in which
\* two candidates tie on the score.
C2_Witness ==
  /\ Returned
  /\ \E j \in 1..generated : gen[j] # j - 1
  /\ \E i \in 1..generated : \E j \in (i + 1)..generated :
       errors(guesses[i]) = errors(guesses[j])

\* C3: for a valid ring and base digits in the ring, every digit of every
\* candidate of the returned list lies in [min, max].
C3_DigitsInRing ==
  (Returned /\ Valid) =>
    \A j \in 1..Len(guesses) : \A i \in 1..Len(guesses[j]) :
      guesses[j][i] \in min..max

\* C3 witness: a returned list for a valid ring with a candidate that
\* wrapped around: the base digit is min and the candidate's digit is max.
C3_Witness ==
  /\ Returned /\ Valid /\ min < max /\ range >= 1
  /\ \E j \in 1..Len(guesses) : \E i \in 1..numbers :
       combination[i] = min /\ guesses[j][i] = max

\* C4: for every modulus >= 1 and a, b in [0, modulus), modular_distance
\* returns min((a - b) mod modulus, (b - a) mod modulus) without error, and
\* the result is symmetric, 0 for a = b, and at most floor(modulus / 2).
C4_DistanceContract ==
  (dstat # "idle") =>
    /\ dstat = "ok"
    /\ dist = CyclicDistance(a, b, m)
    /\ dist = modular_distance(b, a, m)
    /\ (a = b => dist = 0)
    /\ 0 <= dist /\ dist <= m \div 2

\* C5: for range = 0, a valid ring and a non-empty base combination in the
\* ring, the returned list is exactly the base combination, with score 0.
C5_RangeZero ==
  (pc = "done" /\ Valid /\ numbers >= 1 /\ range = 0)
    => (result = "ok" /\ guesses = <<combination>> /\ errors(combination) = 0)

\* C6: for an empty base combination guesses reports an error and returns
\* no guess list.
C6_EmptyRejected ==
  (pc = "done" /\ numbers = 0) => (result # "ok" /\ guesses = <<>>)

\* C7: when (2*range+1)^k does not fit the word, guesses ends in a fatal
\* error and returns no list.
C7_OverflowFatal ==
  (pc = "done" /\ ~Fits) => (result # "ok" /\ guesses = <<>>)

\* C8: a configuration with min > max is rejected before any candidate is
\* generated, so a run that returns a list has modulus >= 1.
C8_RingBoundsValidated ==
  (pc = "done" /\ min > max) => (result # "ok" /\ generated = 0)

\* C9: for a valid configuration whose search space fits, the candidate of
\* delta has at position i the digit min + ((c_i - min + d_i - r) mod modulus),
\* and the intermediate value (c_i - min) + modulus + d_i - r is never negative.
C9_DigitFormula ==
  (pc = "done" /\ Valid /\ Fits /\ numbers >= 1) =>
    /\ \A d \in 0..(SearchSpace - 1) : \A i \in 1..numbers :
         (combination[i] - min) + RingSize + OffsetDigit(d, i) - range >= 0
    /\ result = "ok" =>
         \A j \in 1..Len(guesses) : \A i \in 1..numbers :
           guesses[j][i] =
             min + ((combination[i] - min + OffsetDigit(gen[j], i) - range) % RingSize)

\* C10: for a valid configuration every returned candidate is, digit by
\* digit, within cyclic distance r of the base, its score is at most
\* k * min(r, floor(modulus / 2)), and the score is 0 exactly for the base.
C10_WithinRadius ==
  (Returned /\ Valid) =>
    \A j \in 1..Len(guesses) :
      /\ \A i \in 1..numbers :
           CyclicDistance(guesses[j][i] - min, combination[i] - min, RingSize) <= range
      /\ errors(guesses[j]) <= numbers * Min2(range, RingSize \div 2)
      /\ (errors(guesses[j]) = 0) <=> (guesses[j] = combination)

====
